---- MODULE Spec2Model ----
(***************************************************************************)
(* Model of src/math/vector.ts: the Vector2d value type, the Element and   *)
(* Button records, and the DOM registry with its instruction log.          *)
(*                                                                         *)
(* Two specifications share the module.  Spec drives a DOM object through  *)
(* createElement, update and instruct, together with the mutations a       *)
(* caller can make through the element references createElement returns.   *)
(* VSpec drives one Vector2d through normalize, setMag and rotate.         *)
(***************************************************************************)
EXTENDS Integers, Sequences, FiniteSets, TLC

VARIABLES
    uid,            \* DOM.uid
    instructions,   \* DOM.instructions, a sequence of strings
    elements,       \* DOM.elements, a function from ids to Element objects
    heap,           \* the Vector2d objects alive, indexed by reference
    mutations,      \* number of mutations callers made through element references
    last,           \* the last call made on the DOM object and how it ended
    created,        \* number of createElement calls that returned
    vthis,          \* VSpec: the Vector2d the methods are called on
    vret,           \* VSpec: the Vector2d the last call returned
    vcall           \* VSpec: the last call, its receiver before the call, its argument

domVars == <<uid, instructions, elements, heap, mutations, last, created>>
vecVars == <<vthis, vret, vcall>>
vars == <<uid, instructions, elements, heap, mutations, last, created,
          vthis, vret, vcall>>

(***************************************************************************)
(* Bounds of the model.                                                    *)
(***************************************************************************)
MaxElements == 2    \* createElement is called while uid < MaxElements
MaxLog == 4         \* the log holds at most MaxLog entries
MaxMutations == 1   \* callers mutate elements at most MaxMutations times
MaxVCoord == 4      \* VSpec: input coordinates range over -MaxVCoord..MaxVCoord

(***************************************************************************)
(* JavaScript numbers.  A number is finite (a rational n/d in lowest       *)
(* terms, d > 0), an infinity (n is its sign) or NaN.  Finite arithmetic   *)
(* is exact: rounding and the sign of zero are not modelled.  The special  *)
(* values follow IEEE 754 as the operators of the source produce them.     *)
(***************************************************************************)
Abs(i) == IF i < 0 THEN -i ELSE i

Sign(i) == IF i < 0 THEN -1 ELSE IF i = 0 THEN 0 ELSE 1

RECURSIVE GCD(_, _)
GCD(a, b) == IF b = 0 THEN a ELSE GCD(b, a % b)

NaN == [k |-> "nan", n |-> 0, d |-> 1]

Inf(s) == [k |-> "inf", n |-> s, d |-> 1]

Fin(n, d) ==
    LET g == GCD(Abs(n), Abs(d))
    IN  [k |-> "fin", n |-> (Sign(d) * n) \div g, d |-> Abs(d) \div g]

Int2Num(i) == Fin(i, 1)

IsFinite(a) == a.k = "fin"

IsZero(a) == a.k = "fin" /\ a.n = 0

\* a * b
NumMul(a, b) ==
    IF a.k = "nan" \/ b.k = "nan" THEN NaN
    ELSE IF a.k = "inf" \/ b.k = "inf"
         THEN IF IsZero(a) \/ IsZero(b) THEN NaN
              ELSE Inf(Sign(a.n) * Sign(b.n))
    ELSE Fin(a.n * b.n, a.d * b.d)

\* a + b
NumAdd(a, b) ==
    IF a.k = "nan" \/ b.k = "nan" THEN NaN
    ELSE IF a.k = "inf" /\ b.k = "inf"
         THEN IF a.n = b.n THEN a ELSE NaN
    ELSE IF a.k = "inf" THEN a
    ELSE IF b.k = "inf" THEN b
    ELSE Fin(a.n * b.d + b.n * a.d, a.d * b.d)

\* -a
NumNeg(a) == IF a.k = "nan" THEN NaN ELSE [a EXCEPT !.n = -a.n]

\* a - b
NumSub(a, b) == NumAdd(a, NumNeg(b))

\* 1 / a; the zero divided by is +0 (a magnitude), so the quotient is +Infinity
NumRecip(a) ==
    IF a.k = "nan" THEN NaN
    ELSE IF a.k = "inf" THEN Int2Num(0)
    ELSE IF a.n = 0 THEN Inf(1)
    ELSE Fin(a.d, a.n)

\* a / b
NumDiv(a, b) == NumMul(a, NumRecip(b))

IsSquare(i) == \E r \in 0..i : r * r = i

ISqrt(i) == CHOOSE r \in 0..i : r * r = i

\* a ** (1/2), defined where the root is rational (the inputs of VSpec keep it so)
NumSqrt(a) ==
    IF a.k = "nan" THEN NaN
    ELSE IF a.k = "inf" THEN Inf(1)
    ELSE IF a.n < 0 THEN NaN
    ELSE Fin(ISqrt(a.n), ISqrt(a.d))

\* a || 0 : NaN and 0 are falsy
OrZero(a) == IF a.k = "nan" \/ IsZero(a) THEN Int2Num(0) ELSE a

(***************************************************************************)
(* Angles.  An angle is held as its cosine and sine, which is what the     *)
(* source takes of it; a NaN or infinite angle has NaN for both.           *)
(***************************************************************************)
NaNAngle == [c |-> NaN, s |-> NaN]

QuarterTurn(c, s) == [c |-> Int2Num(c), s |-> Int2Num(s)]

\* o + a
AngleAdd(o, a) ==
    [c |-> NumSub(NumMul(o.c, a.c), NumMul(o.s, a.s)),
     s |-> NumAdd(NumMul(o.s, a.c), NumMul(o.c, a.s))]

\* Math.atan2(y, x); an infinite x with an infinite y is outside the model
atan2(y, x) ==
    IF x.k = "nan" \/ y.k = "nan" THEN NaNAngle
    ELSE IF IsZero(x) /\ IsZero(y) THEN QuarterTurn(1, 0)
    ELSE IF x.k = "fin" /\ y.k = "fin"
         THEN LET r == NumSqrt(NumAdd(NumMul(x, x), NumMul(y, y)))
              IN  [c |-> NumDiv(x, r), s |-> NumDiv(y, r)]
    ELSE IF y.k = "inf" /\ x.k = "fin" THEN QuarterTurn(0, y.n)
    ELSE QuarterTurn(x.n, 0)

(***************************************************************************)
(* class Vector2d.  An instance method is an operator from the receiver    *)
(* (and the arguments) to the receiver after the call; a static method is  *)
(* an operator to the vector it returns.                                   *)
(***************************************************************************)
Vector2d(x, y) == [x |-> OrZero(x), y |-> OrZero(y)]

NewVector2d == Vector2d(Int2Num(0), Int2Num(0))

copy(this) == Vector2d(this.x, this.y)

add(this, v) == [x |-> NumAdd(this.x, v.x), y |-> NumAdd(this.y, v.y)]

set(this, x, y) == [x |-> x, y |-> y]

scale(this, n) == [x |-> NumMul(this.x, n), y |-> NumMul(this.y, n)]

magSq(this) == NumAdd(NumMul(this.x, this.x), NumMul(this.y, this.y))

mag(this) == NumSqrt(magSq(this))

\* a guard the source does not have: the zero vector is left as it is
normalize_guarded(this) ==
    IF IsZero(mag(this)) THEN this ELSE scale(this, NumRecip(mag(this)))

normalize(this) == scale(this, NumRecip(mag(this)))

static_normalize(v) == normalize(copy(v))

setMag(this, n) == scale(normalize(this), n)

static_setMag(v, n) == setMag(copy(v), n)

angle(this) == atan2(this.y, this.x)

fromAngle(o) == Vector2d(o.c, o.s)

static_rotate(v, a) ==
    LET r == mag(v)
        o == AngleAdd(angle(v), a)
    IN  scale(fromAngle(o), r)

rotate(this, a) ==
    LET v == static_rotate(this, a)
    IN  [x |-> v.x, y |-> v.y]

ZeroVector == [x |-> Int2Num(0), y |-> Int2Num(0)]

NaNVector == [x |-> NaN, y |-> NaN]

(***************************************************************************)
(* VSpec: one Vector2d and the calls made on it.                           *)
(***************************************************************************)
VCoords == (0 - MaxVCoord)..MaxVCoord

\* the vectors a caller starts from: integer coordinates, rational length
VecInputs ==
    {[x |-> Int2Num(p[1]), y |-> Int2Num(p[2])] :
        p \in {q \in VCoords \X VCoords : IsSquare(q[1] * q[1] + q[2] * q[2])}}

MagInputs == {Int2Num(0), Int2Num(1), Int2Num(2), Int2Num(-1), NaN}

AngleInputs ==
    {QuarterTurn(1, 0), QuarterTurn(0, 1), QuarterTurn(-1, 0), QuarterTurn(0, -1),
     NaNAngle}

VCall(op, recv, n, a) == [op |-> op, recv |-> recv, n |-> n, a |-> a]

VIdle ==
    /\ vthis = ZeroVector
    /\ vret = ZeroVector
    /\ vcall = VCall("new", ZeroVector, Int2Num(0), QuarterTurn(1, 0))

VInit ==
    /\ vthis \in VecInputs
    /\ vret = vthis
    /\ vcall = VCall("new", vthis, Int2Num(0), QuarterTurn(1, 0))

VNormalize ==
    /\ vthis' = normalize(vthis)
    /\ vret' = vthis'
    /\ vcall' = VCall("normalize", vthis, Int2Num(0), QuarterTurn(1, 0))
    /\ UNCHANGED domVars

VStaticNormalize ==
    /\ vret' = static_normalize(vthis)
    /\ vthis' = vthis
    /\ vcall' = VCall("static normalize", vthis, Int2Num(0), QuarterTurn(1, 0))
    /\ UNCHANGED domVars

VSetMag ==
    \E n \in MagInputs :
        /\ vthis' = setMag(vthis, n)
        /\ vret' = vthis'
        /\ vcall' = VCall("setMag", vthis, n, QuarterTurn(1, 0))
        /\ UNCHANGED domVars

VStaticSetMag ==
    \E n \in MagInputs :
        /\ vret' = static_setMag(vthis, n)
        /\ vthis' = vthis
        /\ vcall' = VCall("static setMag", vthis, n, QuarterTurn(1, 0))
        /\ UNCHANGED domVars

VRotate ==
    \E a \in AngleInputs :
        /\ vthis' = rotate(vthis, a)
        /\ vret' = vret
        /\ vcall' = VCall("rotate", vthis, Int2Num(0), a)
        /\ UNCHANGED domVars

VStaticRotate ==
    \E a \in AngleInputs :
        /\ vret' = static_rotate(vthis, a)
        /\ vthis' = vthis
        /\ vcall' = VCall("static rotate", vthis, Int2Num(0), a)
        /\ UNCHANGED domVars

VNext ==
    \/ VNormalize
    \/ VStaticNormalize
    \/ VSetMag
    \/ VStaticSetMag
    \/ VRotate
    \/ VStaticRotate

(***************************************************************************)
(* JavaScript values that reach an element: strings, references to         *)
(* Vector2d objects of the heap, functions and undefined.                  *)
(***************************************************************************)
Undefined == [t |-> "undefined", s |-> "", r |-> 0]

Str(s) == [t |-> "string", s |-> s, r |-> 0]

Ref(r) == [t |-> "Vector2d", s |-> "", r |-> r]

Fn(name) == [t |-> "function", s |-> name, r |-> 0]

\* a slip: the default is left out
Coalesce_none(a, b) == a

\* a ?? b
Coalesce(a, b) == IF a.t = "undefined" THEN b ELSE a

\* the arrow function ()=>{} of Button's constructor
Noop == Fn("()=>{}")

IsCallable(v) == v.t = "function"

(***************************************************************************)
(* The options object of createElement: a function from names to values.   *)
(***************************************************************************)
Whitespace == {" ", "\t", "\n", "\r", "\f"}

\* a slip: key.replace(/\s/,''), which strips the first whitespace only
StripWhitespace_first(key) ==
    IF \E i \in 1..Len(key) : SubSeq(key, i, i) \in Whitespace
    THEN LET i == CHOOSE i \in 1..Len(key) :
                      /\ SubSeq(key, i, i) \in Whitespace
                      /\ \A j \in 1..(i - 1) : SubSeq(key, j, j) \notin Whitespace
         IN  SubSeq(key, 1, i - 1) \o SubSeq(key, i + 1, Len(key))
    ELSE key

\* key.replace(/\s/g,'')
RECURSIVE StripWhitespace(_)
StripWhitespace(key) ==
    IF Len(key) = 0 THEN ""
    ELSE (IF SubSeq(key, 1, 1) \in Whitespace THEN "" ELSE SubSeq(key, 1, 1))
         \o StripWhitespace(SubSeq(key, 2, Len(key)))

\* options[name] = v
Put(options, name, v) ==
    [k \in DOMAIN options \cup {name} |-> IF k = name THEN v ELSE options[k]]

\* options.name
Get(options, name) == IF name \in DOMAIN options THEN options[name] ELSE Undefined

\* {...a, ...b}
Spread(a, b) ==
    [k \in DOMAIN a \cup DOMAIN b |-> IF k \in DOMAIN b THEN b[k] ELSE a[k]]

NoOptions == [k \in {} |-> Undefined]

\* keys[i].replace throws a TypeError when keys[i] is undefined
OptionsThrow(keys, values) == \E i \in 1..Len(values) : i > Len(keys)

\* the options after the first n callbacks of values.forEach
RECURSIVE BuildOptions(_, _, _)
BuildOptions(keys, values, n) ==
    IF n = 0 THEN NoOptions
    ELSE Put(BuildOptions(keys, values, n - 1), StripWhitespace(keys[n]), values[n])

(***************************************************************************)
(* class Element and class Button.  A constructor yields the object and    *)
(* the heap after it: the default pos is a Vector2d it allocates.          *)
(***************************************************************************)
NoEvents == [k \in {} |-> Undefined]

Element(options, h) ==
    LET given == Get(options, "pos")
        h2 == IF given.t = "undefined" THEN Append(h, NewVector2d) ELSE h
    IN  [e |-> [id |-> -1,
                pos |-> Coalesce(given, Ref(Len(h2))),
                tag |-> Coalesce(Get(options, "tag"), Str("")),
                events |-> NoEvents,
                innerText |-> Coalesce(Get(options, "innerText"), Str(""))],
         heap |-> h2]

Button(options, h) ==
    LET super == Element(Spread(options, [tag |-> Str("button")]), h)
    IN  [e |-> [super.e EXCEPT
                  !.events = Put(@, "click", Coalesce(Get(options, "click"), Noop))],
         heap |-> super.heap]

\* switch(options.tag)
Construct(options, h) ==
    IF Get(options, "tag") = Str("button") THEN Button(options, h)
    ELSE Element(options, h)

(***************************************************************************)
(* JSON.stringify of an element.  A member whose value is a function or    *)
(* undefined is left out; NaN and the infinities are written null.  The    *)
(* strings of the model need no escaping.                                  *)
(***************************************************************************)
JSONNumber(a) ==
    CASE a.k = "fin" /\ a.d = 1 -> ToString(a.n)
      [] a.k # "fin" -> "null"

JSONString(s) == "\"" \o s \o "\""

JSONVector(v) == "{\"x\":" \o JSONNumber(v.x) \o ",\"y\":" \o JSONNumber(v.y) \o "}"

\* a serializer that writes a function as its source text
JSONValue_functions(v, h) ==
    CASE v.t = "string" -> JSONString(v.s)
      [] v.t = "Vector2d" -> JSONVector(h[v.r])
      [] v.t = "function" -> JSONString(v.s)
      [] OTHER -> ""

\* the text of a value, "" when the member holding it is left out
JSONValue(v, h) ==
    CASE v.t = "string" -> JSONString(v.s)
      [] v.t = "Vector2d" -> JSONVector(h[v.r])
      [] OTHER -> ""

\* the members kept, each written "name":text, separated by commas
RECURSIVE JSONMembers(_)
JSONMembers(members) ==
    IF members = << >> THEN ""
    ELSE LET m == Head(members)
             rest == JSONMembers(Tail(members))
         IN  IF m[2] = "" THEN rest
             ELSE JSONString(m[1]) \o ":" \o m[2]
                  \o (IF rest = "" THEN "" ELSE "," \o rest)

JSONObject(members) == "{" \o JSONMembers(members) \o "}"

JSONEvents(events, h) ==
    JSONObject(IF "click" \in DOMAIN events
               THEN << <<"click", JSONValue(events["click"], h)>> >>
               ELSE << >>)

\* JSON.stringify(e): the own properties in creation order.  The field
\* initializers (id, events) run before the constructor's body (pos, tag,
\* innerText), as TypeScript emits them unless useDefineForClassFields is set.
JSONstringify(e, h) ==
    JSONObject(<< <<"id", ToString(e.id)>>,
                  <<"events", JSONEvents(e.events, h)>>,
                  <<"pos", JSONValue(e.pos, h)>>,
                  <<"tag", JSONValue(e.tag, h)>>,
                  <<"innerText", JSONValue(e.innerText, h)>> >>)

(***************************************************************************)
(* class DOM.  The object is the record of its three fields; a method is   *)
(* an operator from the object (and the heap) to the object after it.      *)
(***************************************************************************)
DOM == [uid |-> 0, instructions |-> << >>, elements |-> [k \in {} |-> Undefined]]

\* a slip: this.instructions.unshift(instruction)
instruct_unshift(dom, instruction) ==
    [dom EXCEPT !.instructions = <<instruction>> \o @]

instruct(dom, instruction) ==
    [dom EXCEPT !.instructions = Append(@, instruction)]

\* a slip: let id=this.uid
PostIncrement_forgotten(dom) == [id |-> dom.uid, dom |-> dom]

\* let id=this.uid++
PostIncrement(dom) == [id |-> dom.uid, dom |-> [dom EXCEPT !.uid = @ + 1]]

\* a slip: this.elements={[id]:e}
Store_alone(elems, id, e) == [k \in {id} |-> e]

\* this.elements[id]=e
Store(elems, id, e) ==
    [k \in DOMAIN elems \cup {id} |-> IF k = id THEN e ELSE elems[k]]

\* a slip: the id is taken before the options are built
createElement_countFirst(dom, h, keys, values) ==
    LET counted == PostIncrement(dom)
        id == counted.id
    IN  IF OptionsThrow(keys, values)
        THEN [dom |-> counted.dom, heap |-> h, threw |-> TRUE, ret |-> -1]
        ELSE LET made == Construct(BuildOptions(keys, values, Len(values)), h)
                 e == [made.e EXCEPT !.id = id]
                 stored == [counted.dom EXCEPT !.elements = Store(@, id, e)]
             IN  [dom |-> instruct(stored,
                             "createElement(" \o JSONstringify(e, made.heap) \o ");"),
                  heap |-> made.heap, threw |-> FALSE, ret |-> id]

\* the call's outcome: the object and the heap after it, whether it threw, and
\* the id of the element returned (-1 when it threw)
createElement(dom, h, keys, values) ==
    IF OptionsThrow(keys, values)
    THEN [dom |-> dom, heap |-> h, threw |-> TRUE, ret |-> -1]
    ELSE LET options == BuildOptions(keys, values, Len(values))
             counted == PostIncrement(dom)
             id == counted.id
             made == Construct(options, h)
             e == [made.e EXCEPT !.id = id]
             stored == [counted.dom EXCEPT !.elements = Store(@, id, e)]
         IN  [dom |-> instruct(stored,
                         "createElement(" \o JSONstringify(e, made.heap) \o ");"),
              heap |-> made.heap, threw |-> FALSE, ret |-> id]

Min(S) == CHOOSE i \in S : \A j \in S : i <= j

\* for(let id in this.elements): the integer keys still to visit, in ascending order
RECURSIVE UpdateLoop(_, _, _)
UpdateLoop(dom, h, ids) ==
    IF ids = {} THEN dom
    ELSE LET id == Min(ids)
             e == dom.elements[id]
         IN  UpdateLoop(
                 instruct(dom, "updateElement(" \o ToString(e.id) \o ","
                               \o JSONstringify(e, h) \o ");"),
                 h, ids \ {id})

\* a dirty check: an element whose createElement entry still describes it is skipped
update_changed(dom, h) ==
    UpdateLoop(dom, h,
        {id \in DOMAIN dom.elements :
            \A i \in 1..Len(dom.instructions) :
                dom.instructions[i] #
                    "createElement(" \o JSONstringify(dom.elements[id], h) \o ");"})

update(dom, h) == UpdateLoop(dom, h, DOMAIN dom.elements)

(***************************************************************************)
(* The callers of a DOM object: the arguments they pass to createElement   *)
(* and the mutations they make through the references it returns.          *)
(***************************************************************************)
\* the key lists callers pass; "t a\tg" and " click" hold whitespace
KeyLists ==
    {<< >>, <<"t a\tg">>, <<"tag", "innerText">>, <<"tag", " click">>, <<"pos">>}

\* the vector callers construct, add and set: new Vector2d(1, 2)
Point == Vector2d(Int2Num(1), Int2Num(2))

\* the strings callers pass as tag and as innerText
TagInputs == {"button", "div"}

TextInputs == {"Go"}

\* the string a caller assigns to innerText later
NewText == "Stop"

Callbacks == {Fn("onClick")}

RawInstructions == {"clear();"}

\* the vectors a caller can pass as pos: the pos of an element it holds, or a
\* vector it makes for the call, whose reference is the next free one
Vectors(h) == {Ref(r) : r \in 1..(Len(h) + 1)}

\* the values of the type the Element and Button constructors declare for a key
ValuesFor(key, h) ==
    LET name == StripWhitespace(key)
    IN  {Undefined} \cup
        (CASE name = "pos" -> Vectors(h)
           [] name = "click" -> Callbacks
           [] name = "tag" -> {Str(s) : s \in TagInputs}
           [] OTHER -> {Str(s) : s \in TextInputs})

RECURSIVE TypedValues(_, _)
TypedValues(keys, h) ==
    IF keys = << >> THEN {<< >>}
    ELSE {<<v>> \o rest : v \in ValuesFor(Head(keys), h),
                          rest \in TypedValues(Tail(keys), h)}

\* as many values as keys, fewer values than keys, or (after values that are
\* all defined) one value more
ValueLists(keys, h) ==
    LET typed == TypedValues(keys, h)
        defined == {vs \in typed : \A i \in 1..Len(vs) : vs[i] # Undefined}
    IN  UNION {{SubSeq(vs, 1, m) : m \in 0..Len(vs)} : vs \in typed}
        \cup {Append(vs, Str("Go")) : vs \in defined}

\* ArgSpec: every key list with every value list
AllCalls(h) ==
    UNION {{<<keys, values>> : values \in ValueLists(keys, h)} : keys \in KeyLists}

\* Spec: a button, a default element and an element placed at a vector
SomeCalls(h) ==
    {<< <<"tag", "innerText">>, <<Str("button"), Str("Go")>> >>,
     << << >>, << >> >>}
    \cup {<< <<"pos">>, <<v>> >> : v \in Vectors(h)}

\* the heap a call starts from: with new Vector2d(1, 2) when the caller passes it
Passing(values, h) ==
    IF \E i \in 1..Len(values) : values[i] = Ref(Len(h) + 1)
    THEN Append(h, Point) ELSE h

Last(op, keys, values, threw, ret) ==
    [op |-> op, keys |-> keys, values |-> values, threw |-> threw, ret |-> ret]

This == [uid |-> uid, instructions |-> instructions, elements |-> elements]

Init ==
    /\ uid = DOM.uid
    /\ instructions = DOM.instructions
    /\ elements = DOM.elements
    /\ heap = << >>
    /\ mutations = 0
    /\ last = Last("new", << >>, << >>, FALSE, -1)
    /\ created = 0
    /\ VIdle

\* dom.createElement(keys, ...values)
Call(keys, values) ==
    \E r \in {createElement(This, Passing(values, heap), keys, values)} :
        /\ r.dom.uid <= MaxElements
        /\ Len(r.dom.instructions) <= MaxLog
        /\ uid' = r.dom.uid
        /\ instructions' = r.dom.instructions
        /\ elements' = r.dom.elements
        /\ heap' = IF r.threw THEN heap ELSE r.heap
        /\ last' = Last("createElement", keys, values, r.threw, r.ret)
        /\ created' = IF r.threw THEN created ELSE created + 1
        /\ UNCHANGED <<mutations, vecVars>>

CreateElement == \E c \in SomeCalls(heap) : Call(c[1], c[2])

CreateElementArgs == \E c \in AllCalls(heap) : Call(c[1], c[2])

\* dom.update()
Update ==
    \E dom \in {update(This, heap)} :
        /\ Len(dom.instructions) <= MaxLog
        /\ uid' = dom.uid
        /\ instructions' = dom.instructions
        /\ elements' = dom.elements
        /\ last' = Last("update", << >>, << >>, FALSE, -1)
        /\ UNCHANGED <<heap, mutations, created, vecVars>>

\* dom.instruct(instruction)
Instruct ==
    \E instruction \in RawInstructions :
        \E dom \in {instruct(This, instruction)} :
            /\ Len(dom.instructions) <= MaxLog
            /\ uid' = dom.uid
            /\ instructions' = dom.instructions
            /\ elements' = dom.elements
            /\ last' = Last("instruct", << >>, << >>, FALSE, -1)
            /\ UNCHANGED <<heap, mutations, created, vecVars>>

\* the caller, holding element id: e.pos.add(new Vector2d(1, 2))
PosAdd(id) ==
    \E p \in {elements[id].pos} :
        /\ mutations < MaxMutations
        /\ p.t = "Vector2d"
        /\ heap' = [heap EXCEPT ![p.r] = add(@, Point)]
        /\ mutations' = mutations + 1
        /\ UNCHANGED <<uid, instructions, elements, last, created, vecVars>>

\* the caller, holding element id: e.pos.set(2, 1)
PosSet(id) ==
    \E p \in {elements[id].pos} :
        /\ mutations < MaxMutations
        /\ p.t = "Vector2d"
        /\ heap' = [heap EXCEPT ![p.r] = set(@, Point.y, Point.x)]
        /\ mutations' = mutations + 1
        /\ UNCHANGED <<uid, instructions, elements, last, created, vecVars>>

\* the caller, holding element id: e.innerText = "Stop"
SetInnerText(id) ==
    /\ mutations < MaxMutations
    /\ elements' = [elements EXCEPT ![id].innerText = Str(NewText)]
    /\ mutations' = mutations + 1
    /\ UNCHANGED <<uid, instructions, heap, last, created, vecVars>>

CallerAdd == \E id \in DOMAIN elements : PosAdd(id)

CallerSet == \E id \in DOMAIN elements : PosSet(id)

CallerText == \E id \in DOMAIN elements : SetInnerText(id)

Next ==
    \/ CreateElement
    \/ Update
    \/ Instruct
    \/ CallerAdd
    \/ CallerSet
    \/ CallerText

Spec == Init /\ [][Next]_vars

ArgNext == CreateElementArgs

ArgSpec == Init /\ [][ArgNext]_vars

DOMIdle ==
    /\ uid = DOM.uid
    /\ instructions = DOM.instructions
    /\ elements = DOM.elements
    /\ heap = << >>
    /\ mutations = 0
    /\ last = Last("new", << >>, << >>, FALSE, -1)
    /\ created = 0

VSpecInit == VInit /\ DOMIdle

VSpec == VSpecInit /\ [][VNext]_vars

(***************************************************************************)
(* Properties.                                                             *)
(***************************************************************************)
StartsWith(s, p) == Len(s) >= Len(p) /\ SubSeq(s, 1, Len(p)) = p

EndsWith(s, p) == Len(s) >= Len(p) /\ SubSeq(s, Len(s) - Len(p) + 1, Len(s)) = p

Contains(s, p) == \E i \in 1..(Len(s) - Len(p) + 1) : SubSeq(s, i, i + Len(p) - 1) = p

IsPrefix(a, b) == Len(a) <= Len(b) /\ SubSeq(b, 1, Len(a)) = a

\* the keys of KeyLists that name the option tag, and the option click
TagKeys == {"tag", "t a\tg"}

ClickKeys == {" click"}

\* the value a call gives the option that `names` name: that of the last such
\* key that has a value, undefined when there is none
Given(keys, values, names) ==
    LET idx == {i \in 1..Len(values) : i <= Len(keys) /\ keys[i] \in names}
    IN  IF idx = {} THEN Undefined
        ELSE values[CHOOSE i \in idx : \A j \in idx : j <= i]

Returned == last.op = "createElement" /\ ~last.threw

\* C1: on a fresh registry, after n createElement calls that returned, uid is n,
\* the stored elements carry the n distinct ids 0..n-1, and the log has exactly
\* n entries, each beginning with "createElement(".
C1_FreshRegistryCounts ==
    /\ uid = created
    /\ DOMAIN elements = 0..(created - 1)
    /\ {elements[k].id : k \in DOMAIN elements} = 0..(created - 1)
    /\ \A j \in DOMAIN elements : \A k \in DOMAIN elements :
           j # k => elements[j].id # elements[k].id
    /\ Len(instructions) = created
    /\ \A i \in 1..Len(instructions) : StartsWith(instructions[i], "createElement(")

C1_Witness == created = 2 /\ uid = 2 /\ Len(instructions) = 2

\* C2: an update() call with k elements stored appends exactly k entries, each
\* beginning with "updateElement(", one for each stored id, whether or not the
\* element changed since its creation or the previous update().
C2_UpdateAppendsOnePerElement ==
    [][Update =>
        LET n == Len(instructions)
            k == Cardinality(DOMAIN elements)
        IN  /\ Len(instructions') = n + k
            /\ SubSeq(instructions', 1, n) = instructions
            /\ \A j \in (n + 1)..(n + k) :
                   StartsWith(instructions'[j], "updateElement(")
            /\ \A id \in DOMAIN elements :
                   Cardinality({j \in (n + 1)..(n + k) :
                       StartsWith(instructions'[j],
                                  "updateElement(" \o ToString(id) \o ",")}) = 1]_vars

\* two elements, neither changed since it was created, and update() has run
C2_Witness ==
    /\ last.op = "update"
    /\ mutations = 0
    /\ Cardinality(DOMAIN elements) = 2
    /\ Len(instructions) = 4

KeysBelowUid == \A k \in DOMAIN elements : k < uid

\* C3: every key of elements is below uid; uid never decreases; and the id a
\* createElement call assigns was assigned to no call before it.  (A step of
\* CreateElement changes created and a step of Update leaves last.op "update":
\* the conjunct written first spares evaluating the action on other steps.)
C3_IdsBelowUidNeverReused ==
    /\ KeysBelowUid
    /\ [][/\ KeysBelowUid'
          /\ uid' >= uid
          /\ (created' # created /\ CreateElement) =>
                 /\ last'.ret \notin DOMAIN elements
                 /\ last'.ret \in DOMAIN elements'
                 /\ elements'[last'.ret].id = last'.ret]_vars

C3_Witness == uid = 2 /\ last.op = "instruct" /\ Len(instructions) = 4

\* C4: the log is append-only: over createElement, update, instruct and the
\* callers' mutations of elements, the log before a step is a prefix of the log
\* after it.
C4_LogAppendOnly == [][IsPrefix(instructions, instructions')]_vars

\* element 0 was changed after its creation, update() has run since, and the
\* first entry still describes the element as it was created
C4_Witness ==
    /\ mutations = 1
    /\ last.op = "update"
    /\ 0 \in DOMAIN elements
    /\ StartsWith(instructions[1], "createElement(")
    /\ instructions[1] # "createElement(" \o JSONstringify(elements[0], heap) \o ");"

\* C5: createElement chooses the variant from the option tag, named by a key
\* once its whitespace is stripped: for the value "button" the element is a
\* Button (tag "button", events.click the caller's click or a no-op); for any
\* other value, or none, a base Element with no events and tag the value given
\* ("" when none).  createElement(['tag','innerText'],'button','Go') on a fresh
\* registry stores tag "button", innerText "Go", id 0.
C5_VariantFromTag ==
    Returned =>
        LET e == elements[last.ret]
            tagGiven == Given(last.keys, last.values, TagKeys)
            clickGiven == Given(last.keys, last.values, ClickKeys)
        IN  /\ IF tagGiven = Str("button")
               THEN /\ e.tag = Str("button")
                    /\ DOMAIN e.events = {"click"}
                    /\ IsCallable(e.events["click"])
                    /\ e.events["click"] =
                           (IF clickGiven = Undefined THEN Noop ELSE clickGiven)
               ELSE /\ e.events = NoEvents
                    /\ e.tag = (IF tagGiven = Undefined THEN Str("") ELSE tagGiven)
            /\ (/\ last.keys = <<"tag", "innerText">>
                /\ last.values = <<Str("button"), Str("Go")>>
                /\ created = 1)
               => (e.tag = Str("button") /\ e.innerText = Str("Go") /\ e.id = 0)

\* a key with whitespace in it named the tag, and a Button was made
C5_Witness ==
    /\ Returned
    /\ last.keys = <<"t a\tg">>
    /\ last.values = <<Str("button")>>
    /\ elements[last.ret].tag = Str("button")
    /\ elements[last.ret].events["click"] = Noop

\* what an entry says of element e: its id, its pos as an object with x and y,
\* its tag, its innerText, and nothing of a function
Describes(entry, e, h) ==
    /\ EndsWith(entry, "});")
    /\ Contains(entry, "\"id\":" \o ToString(e.id))
    /\ Contains(entry, "\"pos\":{\"x\":" \o ToString(h[e.pos.r].x.n)
                       \o ",\"y\":" \o ToString(h[e.pos.r].y.n) \o "}")
    /\ Contains(entry, "\"tag\":\"" \o e.tag.s \o "\"")
    /\ Contains(entry, "\"innerText\":\"" \o e.innerText.s \o "\"")
    /\ ~Contains(entry, "click")
    /\ ~Contains(entry, "=>")

\* the place of id among the keys of elements, in ascending order
Rank(id) == Cardinality({k \in DOMAIN elements : k <= id})

\* C6: createElement appends one entry "createElement(<S>);" and update one
\* entry "updateElement(<id>,<S>);" per element, <id> the id assigned at
\* creation and <S> the serialization of the element as it is at the call: its
\* id, its pos with x and y, its tag, its innerText, and no function.
C6_EntryShapes ==
    [][/\ (created' # created /\ CreateElement) =>
              LET entry == instructions'[Len(instructions')]
              IN  /\ Len(instructions') = Len(instructions) + 1
                  /\ uid \in DOMAIN elements'
                  /\ elements'[uid].id = uid
                  /\ StartsWith(entry, "createElement({")
                  /\ Describes(entry, elements'[uid], heap')
       /\ (last'.op = "update" /\ Update) =>
              \A id \in DOMAIN elements :
                  LET entry == instructions'[Len(instructions) + Rank(id)]
                  IN  /\ elements[id].id = id
                      /\ StartsWith(entry, "updateElement(" \o ToString(id) \o ",{")
                      /\ Describes(entry, elements[id], heap)]_vars

\* the log after createElement(['tag','innerText'],'button','Go') and update()
C6_Witness ==
    /\ Len(instructions) = 2
    /\ instructions[1] = "createElement({\"id\":0,\"events\":{},"
          \o "\"pos\":{\"x\":0,\"y\":0},\"tag\":\"button\",\"innerText\":\"Go\"});"
    /\ instructions[2] = "updateElement(0,{\"id\":0,\"events\":{},"
          \o "\"pos\":{\"x\":0,\"y\":0},\"tag\":\"button\",\"innerText\":\"Go\"});"

\* no other element holds the reference p
Unshared(p, id) == \A j \in DOMAIN elements \ {id} : elements[j].pos # p

\* C7: a createElement call with fewer values than keys raises no error; the
\* element gets the next id and is stored, logged and returned; each option
\* whose key has no value gets its default: tag "", pos a new (0,0) vector,
\* innerText "", click a no-op.
C7_FewerValuesDefaults ==
    (last.op = "createElement" /\ Len(last.values) < Len(last.keys)) =>
        /\ ~last.threw
        /\ last.ret = uid - 1
        /\ last.ret \in DOMAIN elements
        /\ elements[last.ret].id = last.ret
        /\ Len(instructions) >= 1
        /\ StartsWith(instructions[Len(instructions)],
                      "createElement({\"id\":" \o ToString(last.ret) \o ",")
        /\ LET e == elements[last.ret]
               unvalued == {last.keys[i] : i \in (Len(last.values) + 1)..Len(last.keys)}
           IN  /\ (unvalued \cap TagKeys # {}
                   /\ Given(last.keys, last.values, TagKeys) = Undefined)
                  => e.tag = Str("")
               /\ "innerText" \in unvalued => e.innerText = Str("")
               /\ "pos" \in unvalued =>
                      /\ e.pos.t = "Vector2d"
                      /\ heap[e.pos.r] = ZeroVector
                      /\ Unshared(e.pos, last.ret)
               /\ (unvalued \cap ClickKeys # {} /\ e.tag = Str("button"))
                  => e.events["click"] = Noop

\* createElement(['tag',' click'],'button'): a Button whose click is the no-op
C7_Witness ==
    /\ Returned
    /\ last.keys = <<"tag", " click">>
    /\ last.values = <<Str("button")>>
    /\ elements[last.ret].tag = Str("button")
    /\ elements[last.ret].events["click"] = Noop
    /\ elements[last.ret].innerText = Str("")

\* C8: each stored element owns its pos: pos.add or pos.set on the pos of one
\* stored element leaves the pos of every other stored element unchanged.
C8_PosOwned ==
    [][\A id \in DOMAIN elements :
           (PosAdd(id) \/ PosSet(id)) =>
               \A j \in DOMAIN elements \ {id} :
                   heap'[elements'[j].pos.r] = heap[elements[j].pos.r]]_vars

ZeroCalls ==
    {"normalize", "static normalize", "setMag", "static setMag",
     "rotate", "static rotate"}

\* the vector the last call yields: what a static method returns, the receiver
\* of an instance method
VResult ==
    IF vcall.op \in {"static normalize", "static setMag", "static rotate"}
    THEN vret ELSE vthis

\* C9, as stated: normalize, setMag and rotate (instance and static) of the
\* zero vector yield a vector whose components are non-finite.
C9_ZeroYieldsNonFinite ==
    (vcall.recv = ZeroVector /\ vcall.op \in ZeroCalls)
        => (~IsFinite(VResult.x) /\ ~IsFinite(VResult.y))

\* C9, amended: normalize and setMag (instance and static) of the zero vector
\* yield (NaN, NaN); rotate (instance and static) of the zero vector yields the
\* zero vector, whose components are finite.
C9_ZeroNormalizeNaNRotateZero ==
    vcall.recv = ZeroVector =>
        /\ vcall.op \in {"normalize", "static normalize", "setMag", "static setMag"}
               => VResult = NaNVector
        /\ vcall.op \in {"rotate", "static rotate"} => VResult = ZeroVector

C9_Witness ==
    /\ vcall.recv = ZeroVector
    /\ vcall.op = "static setMag"
    /\ vret = NaNVector
    /\ vthis = ZeroVector

\* C10: a createElement call with more values than keys fails and leaves uid,
\* elements and the log as they were, so that the next call that returns gets
\* the id the failed call would have had.
C10_SurplusValueThrows ==
    [][/\ Len(last'.values) > Len(last'.keys) =>
              /\ last'.threw
              /\ uid' = uid
              /\ elements' = elements
              /\ instructions' = instructions
       /\ (last.op = "createElement" /\ last.threw /\ ~last'.threw)
              => last'.ret = uid]_vars

\* a call failed after one had returned, and uid is still 1
C10_Witness ==
    /\ last.op = "createElement"
    /\ last.threw
    /\ Len(last.values) > Len(last.keys)
    /\ uid = 1
    /\ DOMAIN elements = {0}
    /\ Len(instructions) = 1

====
